---- MODULE Spec2Model ----
(***************************************************************************)
(* Model of the cache layer of the school-library API:                     *)
(*   services/cache_service.py  CacheService (LRU map + TTL + asyncio.Lock) *)
(*   routers/books.py, routers/borrow.py  the endpoints that drive it       *)
(*                                                                         *)
(* Granularity.  A body of `async with self._lock:` contains no await, so  *)
(* the acquisition of the lock and the body are one step (the engine       *)
(* actions get, set, delete, ...); the release is a second step (Release). *)
(* Between the two the task holds the lock and every other task that wants *)
(* an engine function is blocked.  The await points outside the lock (the  *)
(* supplier of get_or_set, the record-store calls of the endpoints) are    *)
(* steps of their own, so other tasks interleave there.                    *)
(*                                                                         *)
(* Specifications.  Spec: two tasks call the engine concurrently (every    *)
(* interleaving at the await points, clock at rest).  SpecTimed: one       *)
(* caller, every ttl argument, and a clock that runs, so entries expire.   *)
(* SpecFault: one caller that also passes ttl arguments outside the        *)
(* documented domain.                                                      *)
(* SpecHelpers: one caller of the by-id helpers of books and students.     *)
(* SpecKeys: two derivations of cache keys from drawn arguments.           *)
(* SpecApi: two HTTP requests run the endpoints against the record store.  *)
(* FairSpec: SpecApi with the fairness of the scheduler and of the lock.   *)
(***************************************************************************)
EXTENDS Integers, Sequences, FiniteSets, TLC

VARIABLES cache,     \* self.cache: OrderedDict, oldest entry first
          ttl_data,  \* self.ttl_data: dict key -> expiry instant
          lock,      \* self._lock: the task inside `async with`, or NoTask
          now,       \* datetime.now()
          db,        \* record store: version of each book row
          client,    \* who drives the cache: concurrent "engine" callers,
                     \* one "timed" caller with a running clock, one "fault"
                     \* caller with faulty ttls, one "helpers" caller,
                     \* "api" endpoints, or the "fair" share of them
          task,      \* per task: the running operation and its position
          lru,       \* history: stored keys, least recently touched first
          set_expiry,\* history: stored key -> expiry its latest set recorded
          trail,     \* history: the keys set so far, as long as the calls made
                     \* were sets of pairwise distinct keys and nothing else
          derive     \* two calls of _generate_key: arguments and results

vars == <<cache, ttl_data, lock, now, db, client, task, lru, set_expiry, trail, derive>>

\* ------------------------------------------------------------------ bounds
max_size    == 2     \* CacheService(max_size=...)
default_ttl == 2     \* CacheService(default_ttl=...)
MaxTime     == 2     \* the clock runs 0..MaxTime
MaxVer      == 1     \* a book row is rewritten at most MaxVer times
timedelta_max == 1000  \* the largest number of seconds timedelta accepts
                       \* (timedelta.max is about 8.64e13 s; scaled down)

\* TTLs fixed by the helper methods
ttl_book_search == 180
ttl_book        == 300
ttl_student     == 600
ttl_all_books   == 300

Tasks   == {"t1", "t2"}
NoTask  == "none"
None    == "None"
BookIds == {1}        \* the rows of the books table
MissingId == 9        \* an id with no row

\* ------------------------------------------------------------------- keys
\* A key is a string.  Two kinds occur: a literal string passed by the
\* caller (kind "raw", text = ns) and the md5 hex digest of
\* "<prefix>:<json of the parameters>" (kind "md5").
RawKey(text) == [kind |-> "raw", ns |-> text, params |-> <<>>]
NoKey        == [kind |-> "none", ns |-> "", params |-> <<>>]

\* Keyword arguments are a sequence of <<name, value>> pairs in the order
\* the caller wrote them (a dict keeps insertion order); the names of one
\* call are distinct.  The parameter names in use, in the order of Python's
\* string comparison:
NameOrder == <<"author", "category", "id", "param1", "param2", "query", "status">>

ValueIn(kwargs, name) ==
    LET i == CHOOSE j \in 1..Len(kwargs) : kwargs[j][1] = name IN kwargs[i][2]

\* variant: the parameters are written in the order they were given
json_dumps_unsorted(kwargs) == kwargs

\* json.dumps(kwargs, sort_keys=True): the pairs in the order of their names
json_dumps(kwargs) ==
    LET names  == {kwargs[i][1] : i \in 1..Len(kwargs)}
        sorted == SelectSeq(NameOrder, LAMBDA n : n \in names)
    IN  [i \in 1..Len(sorted) |-> <<sorted[i], ValueIn(kwargs, sorted[i])>>]

\* hashlib.md5(text).hexdigest(): a digest tells nothing but the identity
\* of the text it was computed from (collisions are left out of account)
md5(prefix, text) == [kind |-> "md5", ns |-> prefix, params |-> text]

\* lines 33-34: md5 of f"{prefix}:{json.dumps(kwargs, sort_keys=True)}"
_generate_key(prefix, kwargs) == md5(prefix, json_dumps(kwargs))

\* key.startswith("book_search"): a hex digest consists of the characters
\* 0-9a-f only, so it never starts with "book_search" ('o' is not a hex
\* digit); a literal key does when its text does.
StartsWithBookSearch(key) == key.kind = "raw" /\ key.ns = "book_search"

AllBooks  == RawKey("all_books")
RawSearch == RawKey("book_search")         \* a literal key "book_search..."
BookKey(id)    == _generate_key("book", << <<"id", id>> >>)
StudentKey(id) == _generate_key("student", << <<"id", id>> >>)
\* cache_book_search, lines 120-126; 0 stands for a parameter left None
SearchKey(q)   ==
    _generate_key("book_search", << <<"query", q>>, <<"category", 0>>,
                                    <<"author", 0>>, <<"status", 0>> >>)

\* keys the direct callers of the engine use
EngineKeys == {BookKey(1), StudentKey(1), RawSearch}

\* ----------------------------------------------------------------- values
Payload(n) == ToString(n)                  \* the row of version n
EngineValues == {None, "a"}                \* what direct callers store

\* an optional ttl argument: <<>> is "not given" (None), <<n>> is n
NoTtl   == <<>>
TtlArgs == {NoTtl, <<1>>}

\* ttl arguments outside the documented domain: zero, negative, and one
\* that timedelta(seconds=ttl) refuses (OverflowError; a ttl that is not a
\* number is refused at the same place with TypeError)
FaultyTtls == {<<0>>, <<-1>>, <<timedelta_max + 1>>}

\* ------------------------------------------------- OrderedDict operations
KeysOf(c)     == {c[i].key : i \in 1..Len(c)}
Has(c, k)     == k \in KeysOf(c)
ValueOf(c, k) == LET i == CHOOSE j \in 1..Len(c) : c[j].key = k IN c[i].value
Remove(c, k)  == SelectSeq(c, LAMBDA e : e.key # k)
RemoveAll(c, ks) == SelectSeq(c, LAMBDA e : e.key \notin ks)
\* variant: the value given is not the value stored
Put_none(c, k, v) == Append(c, [key |-> k, value |-> None])

\* self.cache[key] = value, for a key that is not in the dict
Put(c, k, v)  == Append(c, [key |-> k, value |-> v])

Drop(d, ks)    == [k \in (DOMAIN d) \ ks |-> d[k]]
Store(d, k, e) == [x \in (DOMAIN d) \cup {k} |-> IF x = k THEN e ELSE d[x]]

\* variant: an entry outlives its expiry by one tick
Expired_late(expiry) == now > expiry + 1

\* variant: an entry is expired already at its expiry instant
Expired_ge(expiry) == now >= expiry

\* get, line 43: datetime.now() > self.ttl_data[key]
Expired(expiry) == now > expiry

\* variant: a read leaves the entry where it is
MoveToEnd_stay(c, k) == c

\* get, lines 50-51: value = self.cache.pop(key); self.cache[key] = value
MoveToEnd(c, k) == Put(Remove(c, k), k, ValueOf(c, k))

\* variant: the capacity test is off by one
IsFull_gt(c) == Len(c) > max_size

\* variant: the store is never taken to be full
IsFull_never(c) == FALSE

\* set, line 67: len(self.cache) >= self.max_size
IsFull(c) == Len(c) >= max_size

\* variant: the victim is taken from the wrong end
Oldest_newest(c) == c[Len(c)].key

\* variant: an entry past its expiry is taken as the victim when there is one
Oldest_expired(c) ==
    LET late == {i \in 1..Len(c) : c[i].key \in DOMAIN ttl_data
                                      /\ now > ttl_data[c[i].key]}
    IN  IF late = {} THEN c[1].key ELSE c[CHOOSE i \in late : TRUE].key

\* set, line 69: next(iter(self.cache))
Oldest(c) == c[1].key

\* variant: the ttl argument is ignored
EffectiveTtl_default(a) == default_ttl

\* set, line 60: ttl = ttl or self.default_ttl
EffectiveTtl(a) == IF a = NoTtl \/ a[1] = 0 THEN default_ttl ELSE a[1]

\* set, line 76: timedelta(seconds=ttl) raises
Overflows(ttl) == ttl > timedelta_max

\* variant: a full store evicts also when the key is already stored
Evicts_full(c, key) == IsFull(c)

\* set, lines 63-67: the elif branch is taken
Evicts(c, key) == ~Has(c, key) /\ IsFull(c)

\* get_or_set, line 109: value is not None
IsHit(value) == value # None

\* --------------------------------------------------------------- programs
\* An operation is the sequence of the lock scopes and await points it goes
\* through; the head of todo is the one in progress.
Step(fn, key, ttl) == [fn |-> fn, key |-> key, ttl |-> ttl]

\* variant: the ttl argument is not passed on to set
get_or_set_default_ttl(key, fetch, ttl) ==
    << Step("get", key, NoTtl), Step(fetch, key, NoTtl), Step("set", key, NoTtl) >>

\* get_or_set, lines 106-115: get, then on a miss the supplier, then set
get_or_set(key, fetch, ttl) ==
    << Step("get", key, NoTtl), Step(fetch, key, NoTtl), Step("set", key, ttl) >>

cache_book_search(q)   == get_or_set(SearchKey(q), "fetch_search", <<ttl_book_search>>)
cache_student_data(id, fetch_func) ==
    get_or_set(StudentKey(id), fetch_func, <<ttl_student>>)
cache_book_data(id, fetch_func) ==
    get_or_set(BookKey(id), fetch_func, <<ttl_book>>)

invalidate_book_cache(id) ==
    << Step("delete", BookKey(id), NoTtl), Step("scan", NoKey, NoTtl) >>

\* variant: the student helper deletes the key of the book with that id
invalidate_student_cache_book(id) == << Step("delete", BookKey(id), NoTtl) >>

invalidate_student_cache(id) == << Step("delete", StudentKey(id), NoTtl) >>

\* variant: the utilisation is reported as a ratio, not as a percentage
Percent_ratio(size, capacity) == <<size, capacity>>

\* get_stats, line 100: (len(self.cache) / self.max_size) * 100, kept as
\* the exact quotient <<numerator, denominator>> (float rounding aside)
Percent(size, capacity) == <<size * 100, capacity>>

\* get_stats, lines 97-102: the dict it returns
Stats(c) ==
    [size |-> Len(c), max_size |-> max_size,
     usage_percent |-> Percent(Len(c), max_size),
     keys |-> [i \in 1..Len(c) |-> c[i].key]]

\* no get_stats result
NoStats == [size |-> 0, max_size |-> 0, usage_percent |-> <<0, 1>>, keys |-> <<>>]

Frame(op, todo, val) ==
    [op |-> op, pc |-> "wait", todo |-> todo, val |-> val, ret |-> None,
     removed |-> {}, calls |-> 0, err |-> FALSE, clean |-> FALSE, id |-> 0,
     had |-> FALSE, stats |-> NoStats, dropped |-> <<>>]

Idle == [op |-> "idle", pc |-> "idle", todo |-> <<>>, val |-> None, ret |-> None,
         removed |-> {}, calls |-> 0, err |-> FALSE, clean |-> FALSE, id |-> 0,
     had |-> FALSE, stats |-> NoStats, dropped |-> <<>>]

\* ----------------------------------------------------------- the endpoints
\* routers/books.py and routers/borrow.py: a mutating endpoint writes the
\* record store and then invalidates
get_all_books  == get_or_set(AllBooks, "fetch_books", <<ttl_all_books>>)
search_books(q) == cache_book_search(q)
get_book(id)   == cache_book_data(id, "fetch_book")
create_book    == << Step("db_create", NoKey, NoTtl), Step("delete", AllBooks, NoTtl) >>
update_book(id) ==
    << Step("db_update", BookKey(id), NoTtl) >> \o invalidate_book_cache(id)
       \o << Step("delete", AllBooks, NoTtl) >>
borrow_book(id) ==
    << Step("db_borrow", BookKey(id), NoTtl) >> \o invalidate_book_cache(id)
       \o << Step("delete", AllBooks, NoTtl) >>

\* a mutating endpoint starts with the record store; id names the row
Awaiting(op, id, todo) == [Frame(op, todo, None) EXCEPT !.pc = "await", !.id = id]

ApiCalls ==
    {Frame("get_all_books", get_all_books, None)}
    \cup {Frame("search_books", search_books(1), None)}
    \cup {[Frame("get_book", get_book(id), None) EXCEPT !.id = id] :
              id \in BookIds \cup {MissingId}}
    \cup {Awaiting("create_book", 0, create_book)}
    \cup {Awaiting("update_book", id, update_book(id)) : id \in BookIds \cup {MissingId}}
    \cup {Awaiting("borrow_book", id, borrow_book(id)) : id \in BookIds}

\* the endpoints of the scheduling analysis: the listing, the by-id read
\* (found and 404) and the update (found and 404); they run every engine
\* function the endpoints call and every exit path of each
FairCalls ==
    {f \in ApiCalls : f.op \in {"get_all_books", "get_book", "update_book"}}

\* the endpoints the client of this run requests
Endpoints == IF client = "fair" THEN FairCalls ELSE ApiCalls

\* the ttl the direct callers of get_or_set pass
GosTtl == <<1>>

\* the calls of the concurrent users of the engine
EngineCalls ==
    {Frame("get", <<Step("get", k, NoTtl)>>, None) : k \in EngineKeys}
    \cup {Frame("set", <<Step("set", k, NoTtl)>>, v) :
              k \in EngineKeys, v \in EngineValues}
    \cup {Frame("delete", <<Step("delete", k, NoTtl)>>, None) : k \in EngineKeys}
    \cup {Frame("clear", <<Step("clear", NoKey, NoTtl)>>, None)}
    \cup {Frame("get_stats", <<Step("get_stats", NoKey, NoTtl)>>, None)}
    \cup {Frame("cleanup_expired", <<Step("cleanup_expired", NoKey, NoTtl)>>, None)}
    \cup {Frame("get_or_set", get_or_set(k, "fetch_func", GosTtl), None) :
              k \in EngineKeys}
    \cup {Frame("invalidate_book_cache", invalidate_book_cache(1), None)}
    \cup {Frame("invalidate_student_cache", invalidate_student_cache(1), None)}

\* the calls of the timed caller: the same, with and without a ttl
TimedCalls ==
    {f \in EngineCalls : f.op # "set"}
    \cup {Frame("set", <<Step("set", k, a)>>, v) :
              k \in EngineKeys, a \in TtlArgs, v \in EngineValues}

\* the ttl a caller of get_or_set passes outside the documented domain
FaultyGosTtl == <<-1>>

\* the calls of a caller that also passes ttls outside the documented domain
FaultCalls ==
    {Frame("get", <<Step("get", k, NoTtl)>>, None) : k \in EngineKeys}
    \cup {Frame("set", <<Step("set", k, a)>>, v) :
              k \in EngineKeys, a \in FaultyTtls \cup {NoTtl}, v \in EngineValues}
    \cup {Frame("delete", <<Step("delete", k, NoTtl)>>, None) : k \in EngineKeys}
    \cup {Frame("get_stats", <<Step("get_stats", NoKey, NoTtl)>>, None)}
    \cup {Frame("get_or_set", get_or_set(k, "fetch_func", FaultyGosTtl), None) :
              k \in EngineKeys}

\* the identifiers the caller of the by-id helpers uses
HelperIds == {1, 2}

\* the calls of a caller of the by-id helpers, with its own supplier
HelperCalls ==
    {[Frame("cache_book_data", cache_book_data(id, "fetch_func"), None)
         EXCEPT !.id = id] : id \in HelperIds}
    \cup {[Frame("cache_student_data", cache_student_data(id, "fetch_func"), None)
              EXCEPT !.id = id] : id \in HelperIds}
    \cup {[Frame("invalidate_book_cache", invalidate_book_cache(id), None)
              EXCEPT !.id = id] : id \in HelperIds}
    \cup {[Frame("invalidate_student_cache", invalidate_student_cache(id), None)
              EXCEPT !.id = id] : id \in HelperIds}

\* the one task of the timed caller
Caller == "t1"

\* the calls task t can start now
Calls(t) ==
    IF task[t].pc # "idle" THEN {}
    ELSE IF client = "engine" THEN EngineCalls
    ELSE IF client = "timed" /\ t = Caller THEN TimedCalls
    ELSE IF client = "fault" /\ t = Caller THEN FaultCalls
    ELSE IF client = "helpers" /\ t = Caller THEN HelperCalls
    ELSE {}

\* the frames from which task t can enter the engine function fn now:
\* a new call of an idle task, or the pending step of a running operation
Ready(t, fn) ==
    {f \in (IF task[t].pc = "wait" THEN {task[t]} ELSE Calls(t)) :
        Head(f.todo).fn = fn}

\* variant: the lock is never waited for
LockFree_always == TRUE

\* async with self._lock: __aenter__ waits until the lock is free
LockFree == lock = NoTask

\* history: the stored keys in the order of their last touch
Touched(order, c, k) ==
    LET kept == SelectSeq(order, LAMBDA x : x \in KeysOf(c) /\ x # k)
    IN  IF k \in KeysOf(c) THEN Append(kept, k) ELSE kept

\* history: the expiry the latest set of each stored key recorded
Recorded(hist, c, d, fn, k) ==
    LET kept == [x \in (DOMAIN hist) \cap KeysOf(c) |-> hist[x]]
    IN  IF fn = "set" /\ k \in DOMAIN d THEN Store(kept, k, d[k]) ELSE kept

\* history: task u has seen key k absent and no set of k has run since
StillClean(u, fn, k) ==
    /\ task[u].clean
    /\ ~(fn = "set" /\ Head(task[u].todo).key = k)

\* history: the calls so far were not only sets of pairwise distinct keys
Spoiled == <<NoKey>>

\* history: the call f enters fn with key k
Trailed(f, fn, k) ==
    IF trail # Spoiled /\ f.op = "set" /\ fn = "set"
          /\ k \notin {trail[i] : i \in 1..Len(trail)}
    THEN Append(trail, k) ELSE Spoiled

\* task t enters the lock scope of the head of f.todo and runs its body:
\* the store becomes (c, d), the body's result is ret; had keeps whether
\* the key was stored when the scope was entered, dropped the expiry
\* records of the keys the body removed
Enter(t, f, c, d, ret, removed, touch) ==
    LET fn  == Head(f.todo).fn
        key == Head(f.todo).key
    IN  /\ LockFree
        /\ lock' = t
        /\ cache' = c
        /\ ttl_data' = d
        /\ task' = [u \in Tasks |->
                     IF u = t
                     THEN [f EXCEPT !.pc = "locked", !.ret = ret, !.removed = removed,
                                    !.had = Has(cache, key),
                                    !.dropped = [k \in removed \cap DOMAIN ttl_data
                                                    |-> ttl_data[k]],
                                    !.clean = (fn = "get" /\ Len(f.todo) > 1
                                               /\ ret = None)]
                     ELSE [task[u] EXCEPT !.clean = StillClean(u, fn, key)]]
        /\ lru' = Touched(lru, c, touch)
        /\ set_expiry' = Recorded(set_expiry, c, d, fn, key)
        /\ trail' = Trailed(f, fn, key)
        /\ UNCHANGED <<now, db, client, derive>>

\* ------------------------------------------------------- engine functions
get(t) ==
    \E f \in Ready(t, "get") :
        LET key == Head(f.todo).key IN
        IF Has(cache, key)
        THEN IF key \in DOMAIN ttl_data /\ Expired(ttl_data[key])
             THEN Enter(t, f, Remove(cache, key), Drop(ttl_data, {key}),
                        None, {key}, NoKey)
             ELSE Enter(t, f, MoveToEnd(cache, key), ttl_data,
                        ValueOf(cache, key), {}, key)
        ELSE Enter(t, f, cache, ttl_data, None, {}, NoKey)

\* variant: a set of a stored key keeps the entry that is there
set_if_absent(t) ==
    \E f \in Ready(t, "set") :
        LET key == Head(f.todo).key IN
        IF Has(cache, key)
        THEN Enter(t, f, cache, ttl_data, None, {}, key)
        ELSE Enter(t, f, Put(IF IsFull(cache) THEN Tail(cache) ELSE cache, key, f.val),
                   Store(IF IsFull(cache) THEN Drop(ttl_data, {Oldest(cache)})
                         ELSE ttl_data, key, now + default_ttl),
                   None, {}, key)

\* lines 60-75 change the entry map; line 76 computes the expiry and
\* records it, and when timedelta raises the scope is left with the entry
\* map already changed
set(t) ==
    \E f \in Ready(t, "set") :
        LET key    == Head(f.todo).key
            ttl    == EffectiveTtl(Head(f.todo).ttl)
            evicts == Evicts(cache, key)
            oldest_key == Oldest(cache)
            kept   == IF Has(cache, key) THEN Remove(cache, key) ELSE cache
            c      == Put(IF evicts THEN Remove(kept, oldest_key) ELSE kept,
                          key, f.val)
            d      == IF evicts THEN Drop(ttl_data, {oldest_key}) ELSE ttl_data
            removed == IF evicts THEN {oldest_key} ELSE {}
        IN  IF Overflows(ttl)
            THEN Enter(t, [f EXCEPT !.err = TRUE], c, d, None, removed, key)
            ELSE Enter(t, f, c, Store(d, key, now + ttl), None, removed, key)

\* variant: delete reports a removal whether or not the key was stored
delete_true(t) ==
    \E f \in Ready(t, "delete") :
        LET key == Head(f.todo).key IN
        Enter(t, f, Remove(cache, key), Drop(ttl_data, {key}), "True",
              KeysOf(cache) \cap {key}, NoKey)

delete(t) ==
    \E f \in Ready(t, "delete") :
        LET key == Head(f.todo).key IN
        IF Has(cache, key)
        THEN Enter(t, f, Remove(cache, key), Drop(ttl_data, {key}),
                   "True", {key}, NoKey)
        ELSE Enter(t, f, cache, ttl_data, "False", {}, NoKey)

clear(t) ==
    \E f \in Ready(t, "clear") :
        Enter(t, f, <<>>, <<>>, None, KeysOf(cache), NoKey)

\* the dict is kept in stats; ret is its "size" entry
get_stats(t) ==
    \E f \in Ready(t, "get_stats") :
        Enter(t, [f EXCEPT !.stats = Stats(cache)], cache, ttl_data,
              ToString(Len(cache)), {}, NoKey)

\* variant: the scan removes the by-id entries of books as well
scan_sweeps(t) ==
    \E f \in Ready(t, "scan") :
        LET keys_to_delete == {k \in KeysOf(cache) :
                                  StartsWithBookSearch(k) \/ k.ns = "book"} IN
        Enter(t, f, RemoveAll(cache, keys_to_delete),
              Drop(ttl_data, keys_to_delete), None, keys_to_delete, NoKey)

\* invalidate_book_cache, lines 150-155
scan(t) ==
    \E f \in Ready(t, "scan") :
        LET keys_to_delete == {k \in KeysOf(cache) : StartsWithBookSearch(k)} IN
        Enter(t, f, RemoveAll(cache, keys_to_delete),
              Drop(ttl_data, keys_to_delete), None, keys_to_delete, NoKey)

\* variant: the sweep also removes the entries that expire at this instant
cleanup_expired_eager(t) ==
    \E f \in Ready(t, "cleanup_expired") :
        LET expired_keys == {k \in DOMAIN ttl_data : now >= ttl_data[k]} IN
        Enter(t, f, RemoveAll(cache, expired_keys), Drop(ttl_data, expired_keys),
              ToString(Cardinality(expired_keys)), expired_keys, NoKey)

cleanup_expired(t) ==
    \E f \in Ready(t, "cleanup_expired") :
        LET expired_keys == {k \in DOMAIN ttl_data : Expired(ttl_data[k])} IN
        Enter(t, f, RemoveAll(cache, expired_keys), Drop(ttl_data, expired_keys),
              ToString(Cardinality(expired_keys)), expired_keys, NoKey)

\* the steps that run outside the lock
AwaitSteps == {"fetch_func", "fetch_book", "fetch_books", "fetch_search",
               "db_update", "db_borrow", "db_create"}

\* the code that follows a lock scope, up to the next await
Continue(f) ==
    LET rest == Tail(f.todo)
        g    == [f EXCEPT !.ret = None, !.removed = {}, !.had = FALSE,
                         !.stats = NoStats, !.dropped = <<>>]
    IN  IF f.err
        THEN [f EXCEPT !.pc = "done"]                 \* the exception propagates
        ELSE IF rest = <<>> \/ (Head(f.todo).fn = "get" /\ IsHit(f.ret))
        THEN Idle                                     \* return (lines 110, 115)
        ELSE IF Head(rest).fn \in AwaitSteps
        THEN [g EXCEPT !.pc = "await", !.todo = rest]
        ELSE [g EXCEPT !.pc = "wait", !.todo = rest]

\* variant: the early return of a miss leaves the scope without releasing
Release_leak(t) ==
    /\ task[t].pc = "locked"
    /\ lock' = IF Head(task[t].todo).fn = "get" /\ task[t].ret = None
               THEN lock ELSE NoTask
    /\ task' = [task EXCEPT ![t] = Continue(task[t])]
    /\ UNCHANGED <<cache, ttl_data, now, db, client, lru, set_expiry, trail, derive>>

\* variant: get_or_set keeps the lock while it awaits its supplier
Release_held(t) ==
    /\ task[t].pc = "locked"
    /\ lock' = IF Continue(task[t]).pc = "await" THEN lock ELSE NoTask
    /\ task' = [task EXCEPT ![t] = Continue(task[t])]
    /\ UNCHANGED <<cache, ttl_data, now, db, client, lru, set_expiry, trail, derive>>

\* async with self._lock: __aexit__
Release(t) ==
    /\ task[t].pc = "locked"
    /\ lock' = NoTask
    /\ task' = [task EXCEPT ![t] = Continue(task[t])]
    /\ UNCHANGED <<cache, ttl_data, now, db, client, lru, set_expiry, trail, derive>>

\* get_or_set, line 113: the supplier returns a value ...
fetch_func_returns(t) ==
    /\ task[t].pc = "await"
    /\ Head(task[t].todo).fn = "fetch_func"
    /\ \E v \in EngineValues :
         task' = [task EXCEPT ![t] = [@ EXCEPT !.pc = "wait", !.todo = Tail(@),
                                               !.val = v, !.calls = @ + 1,
                                               !.clean = FALSE]]
    /\ UNCHANGED <<cache, ttl_data, lock, now, db, client, lru, set_expiry, trail, derive>>

\* variant: the failure is stored before it is raised
fetch_func_raises_cached(t) ==
    /\ task[t].pc = "await"
    /\ Head(task[t].todo).fn = "fetch_func"
    /\ LET key == Head(task[t].todo).key IN
         /\ cache' = Put(Remove(cache, key), key, "a")
         /\ ttl_data' = Store(ttl_data, key, now + default_ttl)
         /\ lru' = Touched(lru, cache', key)
         /\ set_expiry' = Recorded(set_expiry, cache', ttl_data', "set", key)
    /\ task' = [task EXCEPT ![t] = [@ EXCEPT !.pc = "done", !.err = TRUE,
                                            !.calls = @ + 1]]
    /\ UNCHANGED <<lock, now, db, client, trail, derive>>

\* ... or raises: the exception leaves get_or_set before line 114
fetch_func_raises(t) ==
    /\ task[t].pc = "await"
    /\ Head(task[t].todo).fn = "fetch_func"
    /\ task' = [task EXCEPT ![t] = [@ EXCEPT !.pc = "done", !.err = TRUE,
                                            !.calls = @ + 1]]
    /\ UNCHANGED <<cache, ttl_data, lock, now, db, client, lru, set_expiry, trail, derive>>

\* the writes of row id that requests in flight have still to make
PendingWrites(id) ==
    Cardinality({u \in Tasks : /\ task[u].pc = "await" /\ task[u].id = id
                               /\ Head(task[u].todo).fn \in {"db_update", "db_borrow"}})

\* an HTTP request reaches its endpoint (a row is rewritten MaxVer times at most)
Request(t) ==
    /\ client \in {"api", "fair"}
    /\ task[t].pc = "idle"
    /\ \E f \in Endpoints :
         /\ (f.op \in {"update_book", "borrow_book"} /\ f.id \in DOMAIN db) =>
                db[f.id] + PendingWrites(f.id) < MaxVer
         /\ task' = [task EXCEPT ![t] = f]
    /\ UNCHANGED <<cache, ttl_data, lock, now, db, client, lru, set_expiry, trail, derive>>

\* the books table as a result set: the versions of its rows
Snapshot == Payload(db[1])

Supplied(t, v) ==
    task' = [task EXCEPT ![t] = [@ EXCEPT !.pc = "wait", !.todo = Tail(@), !.val = v,
                                          !.calls = @ + 1, !.clean = FALSE]]

\* books.py get_book.fetch_book: the row, or 404 when there is none
fetch_book(t) ==
    /\ task[t].pc = "await"
    /\ Head(task[t].todo).fn = "fetch_book"
    /\ LET id == task[t].id IN
       IF id \in DOMAIN db
       THEN Supplied(t, Payload(db[id]))
       ELSE task' = [task EXCEPT ![t] = [@ EXCEPT !.pc = "done", !.err = TRUE,
                                                 !.calls = @ + 1]]
    /\ UNCHANGED <<cache, ttl_data, lock, now, db, client, lru, set_expiry, trail, derive>>

\* books.py get_all_books.fetch_books and search_books_async.fetch_search_results
fetch_books(t) ==
    /\ task[t].pc = "await"
    /\ Head(task[t].todo).fn \in {"fetch_books", "fetch_search"}
    /\ Supplied(t, Snapshot)
    /\ UNCHANGED <<cache, ttl_data, lock, now, db, client, lru, set_expiry, trail, derive>>

\* the record-store part of a mutating endpoint: the existence checks (404)
\* and the write; val keeps the version written
db_write(t) ==
    /\ task[t].pc = "await"
    /\ Head(task[t].todo).fn \in {"db_update", "db_borrow", "db_create"}
    /\ LET id == task[t].id IN
       IF Head(task[t].todo).fn = "db_create"
       THEN /\ db' = db
            /\ task' = [task EXCEPT ![t] = [@ EXCEPT !.pc = "wait", !.todo = Tail(@)]]
       ELSE IF id \notin DOMAIN db
       THEN /\ db' = db
            /\ task' = [task EXCEPT ![t] = [@ EXCEPT !.pc = "done", !.err = TRUE]]
       ELSE /\ db' = [db EXCEPT ![id] = @ + 1]
            /\ task' = [task EXCEPT ![t] = [@ EXCEPT !.pc = "wait", !.todo = Tail(@),
                                                    !.val = Payload(db[id] + 1)]]
    /\ UNCHANGED <<cache, ttl_data, lock, now, client, lru, set_expiry, trail, derive>>

\* the operation has returned to its caller
Return(t) ==
    /\ task[t].pc = "done"
    /\ task' = [task EXCEPT ![t] = Idle]
    /\ UNCHANGED <<cache, ttl_data, lock, now, db, client, lru, set_expiry, trail, derive>>

\* variant: the clock can step back
Tick_rewind ==
    /\ now' \in {n \in {now - 1, now + 1} : 0 <= n /\ n <= MaxTime}
    /\ UNCHANGED <<cache, ttl_data, lock, db, client, task, lru, set_expiry, trail, derive>>

Tick ==
    /\ now < MaxTime
    /\ now' = now + 1
    /\ UNCHANGED <<cache, ttl_data, lock, db, client, task, lru, set_expiry, trail, derive>>

\* --------------------------------------------------------- key derivation
\* the prefixes, parameter names and values of the derivations under test
KeyPrefixes == {"test", "book_search"}
KeyValues   == {1, 2}

\* keyword arguments: param1 alone, or param1 and param2 in either order
KeyKwargs ==
    {<< <<"param1", v>> >> : v \in KeyValues}
    \cup {<< <<"param1", v>>, <<"param2", w>> >> : v \in KeyValues, w \in KeyValues}
    \cup {<< <<"param2", w>>, <<"param1", v>> >> : v \in KeyValues, w \in KeyValues}

KeyCalls == {[prefix |-> p, kwargs |-> kw] : p \in KeyPrefixes, kw \in KeyKwargs}

\* no derivation is under test
NoDerive == [calls |-> <<>>, keys |-> <<>>]

\* the i-th call of _generate_key is made, at whatever time
generate_key(i) ==
    /\ client = "keys"
    /\ derive.keys[i] = NoKey
    /\ derive' = [derive EXCEPT
                    !.keys[i] = _generate_key(derive.calls[i].prefix,
                                              derive.calls[i].kwargs)]
    /\ UNCHANGED <<cache, ttl_data, lock, now, db, client, task, lru, set_expiry, trail>>

\* ---------------------------------------------------------- specification
Init ==
    /\ cache = <<>>
    /\ ttl_data = <<>>
    /\ lock = NoTask
    /\ now = 0
    /\ db = [b \in BookIds |-> 0]
    /\ client = "engine"
    /\ task = [t \in Tasks |-> Idle]
    /\ lru = <<>>
    /\ set_expiry = <<>>
    /\ trail = <<>>
    /\ derive = NoDerive

Next ==
    \/ \E t \in Tasks : get(t)
    \/ \E t \in Tasks : set(t)
    \/ \E t \in Tasks : delete(t)
    \/ \E t \in Tasks : clear(t)
    \/ \E t \in Tasks : get_stats(t)
    \/ \E t \in Tasks : scan(t)
    \/ \E t \in Tasks : cleanup_expired(t)
    \/ \E t \in Tasks : Release(t)
    \/ \E t \in Tasks : fetch_func_returns(t)
    \/ \E t \in Tasks : fetch_func_raises(t)
    \/ \E t \in Tasks : Return(t)

Spec == Init /\ [][Next]_vars

\* one caller and a running clock
InitTimed ==
    /\ cache = <<>>
    /\ ttl_data = <<>>
    /\ lock = NoTask
    /\ now = 0
    /\ db = [b \in BookIds |-> 0]
    /\ client = "timed"
    /\ task = [t \in Tasks |-> Idle]
    /\ lru = <<>>
    /\ set_expiry = <<>>
    /\ trail = <<>>
    /\ derive = NoDerive

NextTimed ==
    \/ get(Caller)
    \/ set(Caller)
    \/ delete(Caller)
    \/ clear(Caller)
    \/ get_stats(Caller)
    \/ scan(Caller)
    \/ cleanup_expired(Caller)
    \/ Release(Caller)
    \/ fetch_func_returns(Caller)
    \/ fetch_func_raises(Caller)
    \/ Return(Caller)
    \/ Tick

SpecTimed == InitTimed /\ [][NextTimed]_vars

\* one caller whose ttl arguments may lie outside the documented domain
InitFault ==
    /\ cache = <<>>
    /\ ttl_data = <<>>
    /\ lock = NoTask
    /\ now = 0
    /\ db = [b \in BookIds |-> 0]
    /\ client = "fault"
    /\ task = [t \in Tasks |-> Idle]
    /\ lru = <<>>
    /\ set_expiry = <<>>
    /\ trail = <<>>
    /\ derive = NoDerive

NextFault ==
    \/ get(Caller)
    \/ set(Caller)
    \/ delete(Caller)
    \/ get_stats(Caller)
    \/ Release(Caller)
    \/ fetch_func_returns(Caller)
    \/ fetch_func_raises(Caller)
    \/ Return(Caller)

SpecFault == InitFault /\ [][NextFault]_vars

\* one caller of the by-id helpers
InitHelpers ==
    /\ cache = <<>>
    /\ ttl_data = <<>>
    /\ lock = NoTask
    /\ now = 0
    /\ db = [b \in BookIds |-> 0]
    /\ client = "helpers"
    /\ task = [t \in Tasks |-> Idle]
    /\ lru = <<>>
    /\ set_expiry = <<>>
    /\ trail = <<>>
    /\ derive = NoDerive

NextHelpers ==
    \/ get(Caller)
    \/ set(Caller)
    \/ delete(Caller)
    \/ scan(Caller)
    \/ Release(Caller)
    \/ fetch_func_returns(Caller)
    \/ fetch_func_raises(Caller)
    \/ Return(Caller)

SpecHelpers == InitHelpers /\ [][NextHelpers]_vars

\* two derivations of keys from arguments drawn at the start
InitKeys ==
    /\ cache = <<>>
    /\ ttl_data = <<>>
    /\ lock = NoTask
    /\ now = 0
    /\ db = [b \in BookIds |-> 0]
    /\ client = "keys"
    /\ task = [t \in Tasks |-> Idle]
    /\ lru = <<>>
    /\ set_expiry = <<>>
    /\ trail = <<>>
    /\ derive \in {[calls |-> <<a, b>>, keys |-> <<NoKey, NoKey>>] :
                       a \in KeyCalls, b \in KeyCalls}

NextKeys ==
    \/ \E i \in {1, 2} : generate_key(i)
    \/ Tick

SpecKeys == InitKeys /\ [][NextKeys]_vars

\* the endpoints drive the cache; the requests race within one TTL
InitApi ==
    /\ cache = <<>>
    /\ ttl_data = <<>>
    /\ lock = NoTask
    /\ now = 0
    /\ db = [b \in BookIds |-> 0]
    /\ client = "api"
    /\ task = [t \in Tasks |-> Idle]
    /\ lru = <<>>
    /\ set_expiry = <<>>
    /\ trail = <<>>
    /\ derive = NoDerive

NextApi ==
    \/ \E t \in Tasks : Request(t)
    \/ \E t \in Tasks : get(t)
    \/ \E t \in Tasks : set(t)
    \/ \E t \in Tasks : delete(t)
    \/ \E t \in Tasks : scan(t)
    \/ \E t \in Tasks : Release(t)
    \/ \E t \in Tasks : fetch_book(t)
    \/ \E t \in Tasks : fetch_books(t)
    \/ \E t \in Tasks : db_write(t)
    \/ \E t \in Tasks : Return(t)

SpecApi == InitApi /\ [][NextApi]_vars

\* ------------------------------------------------------------ vocabulary
Cur(t)     == Head(task[t].todo)
At(t, fn)  == task[t].pc = "locked" /\ Cur(t).fn = fn
\* the step in which task t enters the lock scope of fn and runs its body
Entered(t, fn) ==
    /\ task[t].pc # "locked"
    /\ task'[t].pc = "locked"
    /\ Head(task'[t].todo).fn = fn
EnteredKey(t) == Head(task'[t].todo).key

\* what get(k) returns in the current state
Lookup(k) ==
    IF Has(cache, k) /\ ~(k \in DOMAIN ttl_data /\ Expired(ttl_data[k]))
    THEN ValueOf(cache, k) ELSE None

\* what the operation returns when the lock scope it is in is its last one
Result(f) ==
    IF Head(f.todo).fn = "set" /\ f.op = "get_or_set" THEN f.val ELSE f.ret

\* C1: in every reachable state the store holds at most max_size entries.
CapacityBound == Len(cache) <= max_size

\* a get_or_set racing with another running operation has just evicted an
\* entry to insert its own into the full store
CapacityBoundWitness ==
    \E t \in Tasks, u \in Tasks :
        /\ At(t, "set") /\ task[t].op = "get_or_set" /\ task[t].removed # {}
        /\ u # t /\ task[u].pc # "idle"
        /\ Len(cache) = max_size

\* C2: a set of a key that is not stored into a store of max_size entries
\* removes exactly the entry whose last touch is the oldest and keeps every
\* other entry; into a store with fewer entries it removes nothing.
SetEvictsLeastRecentlyTouched ==
    [][\A t \in Tasks :
         (Entered(t, "set") /\ ~Has(cache, EnteredKey(t))) =>
            LET k == EnteredKey(t)
                kept == IF Len(cache) = max_size
                        THEN KeysOf(cache) \ {lru[1]} ELSE KeysOf(cache)
            IN  /\ Len(lru) = Len(cache)
                /\ KeysOf(cache') = kept \cup {k}
                /\ Len(cache') = Cardinality(kept) + 1
                /\ \A e \in kept : /\ ValueOf(cache', e) = ValueOf(cache, e)
                                    /\ ttl_data'[e] = ttl_data[e]]_vars

\* a direct set has just evicted an entry from the full store and its own
\* entry is at the most-recently-used end
SetEvictsWitness ==
    \E t \in Tasks :
        /\ At(t, "set") /\ task[t].op = "set" /\ task[t].removed # {}
        /\ Len(cache) = max_size
        /\ Cur(t).key = cache[Len(cache)].key

\* C3: a get that returns a value does so at a time not later than the
\* expiry recorded by the latest set of the key.
GetNeverReturnsExpired ==
    [][\A t \in Tasks :
         (Entered(t, "get") /\ task'[t].ret # None) =>
            /\ EnteredKey(t) \in DOMAIN set_expiry
            /\ now <= set_expiry[EnteredKey(t)]]_vars

\* a get has returned a value at the very instant of its expiry while
\* another stored entry is already past its own and was never swept
GetNeverReturnsExpiredWitness ==
    \E t \in Tasks :
        /\ At(t, "get") /\ task[t].ret # None
        /\ set_expiry[Cur(t).key] = now
        /\ \E k \in DOMAIN ttl_data : now > ttl_data[k]

\* C4: when the supplier of get_or_set fails, the failure reaches the
\* caller, set is not run, nothing is stored, and the key is still absent
\* for a later get unless another task has set it.
FailedSupplierStoresNothing ==
    /\ [](\A t \in Tasks :
            (task[t].pc = "done" /\ task[t].err /\ task[t].clean) =>
                Lookup(Cur(t).key) = None)
    /\ [][\A t \in Tasks :
            /\ (task[t].pc = "await" /\ task'[t].calls > task[t].calls
                   /\ task'[t].err) =>
                  /\ task'[t].pc = "done"
                  /\ cache' = cache /\ ttl_data' = ttl_data
            /\ (task[t].pc = "done" /\ task[t].err /\ task'[t].pc # "done") =>
                  /\ task'[t] = Idle
                  /\ cache' = cache /\ ttl_data' = ttl_data]_vars

\* a get_or_set has failed and no other task has set its key since
FailedSupplierWitness ==
    \E t \in Tasks :
        /\ task[t].pc = "done" /\ task[t].err /\ task[t].clean
        /\ task[t].op = "get_or_set" /\ task[t].calls = 1
        /\ cache # <<>>

\* C5: on a miss get_or_set invokes the supplier once, stores the result
\* under the key with the ttl it was given and returns it; until the entry
\* is set again or removed it keeps its value and expiry, and a get at a
\* time not later than the expiry returns the stored value.
GetOrSetPopulatesOnMiss ==
    [][\A t \in Tasks :
         /\ (At(t, "get") /\ task[t].op = "get_or_set" /\ ~Has(cache, Cur(t).key)
                /\ task'[t].pc # "locked") =>
               /\ task'[t].pc = "await" /\ task'[t].calls = 0
         /\ (Entered(t, "set") /\ task'[t].op = "get_or_set") =>
               LET k == EnteredKey(t) IN
               /\ task'[t].calls = 1
               /\ Has(cache', k)
               /\ ValueOf(cache', k) = task'[t].val
               /\ ttl_data'[k] = now + GosTtl[1]
               /\ Result(task'[t]) = task'[t].val
         /\ (Entered(t, "get") /\ Has(cache, EnteredKey(t))
                /\ now <= ttl_data[EnteredKey(t)]) =>
               task'[t].ret = ValueOf(cache, EnteredKey(t))
         /\ \A k \in KeysOf(cache) \cap KeysOf(cache') :
               (\A u \in Tasks : ~(Entered(u, "set") /\ EnteredKey(u) = k)) =>
                  /\ ValueOf(cache', k) = ValueOf(cache, k)
                  /\ ttl_data'[k] = ttl_data[k]]_vars

\* a get_or_set has missed, called its supplier once and stored the
\* supplier's value, which a get would still return at the last instant
\* of its lifetime
GetOrSetPopulatesWitness ==
    \E t \in Tasks :
        /\ At(t, "set") /\ task[t].op = "get_or_set"
        /\ task[t].calls = 1 /\ task[t].val = "a"
        /\ Lookup(Cur(t).key) = "a"
        /\ ttl_data[Cur(t).key] = now /\ now > 0

\* C6: when the key holds a live entry, get_or_set returns the stored value
\* and does not invoke the supplier, whatever the stored value is.
GetOrSetHitSkipsSupplier ==
    [][\A t \in Tasks :
         (At(t, "get") /\ task[t].op = "get_or_set" /\ Has(cache, Cur(t).key)
            /\ task'[t].pc # "locked") =>
               task'[t] = Idle]_vars

\* C7: after invalidate_book_cache no entry derived under the search
\* namespace is stored, and the entries of the other namespaces remain.
InvalidateRemovesSearchEntries ==
    [][\A t \in Tasks :
         Entered(t, "scan") =>
            /\ \A k \in KeysOf(cache') : k.ns # "book_search"
            /\ \A k \in KeysOf(cache) : k.ns # "book_search" => Has(cache', k)]_vars

\* the version a stored payload was computed from
Ver(v) == CHOOSE n \in 0..MaxVer : Payload(n) = v

\* C8: when a mutating endpoint has written the record store and finished
\* its invalidation calls, the by-id entry of its book and the "all_books"
\* entry hold no value computed before that write.
NoStaleEntryAfterInvalidation ==
    \A t \in Tasks :
        (At(t, "delete") /\ Len(task[t].todo) = 1
           /\ task[t].op \in {"update_book", "borrow_book"}) =>
              \A k \in {BookKey(task[t].id), AllBooks} :
                  Has(cache, k) => Ver(ValueOf(cache, k)) >= Ver(task[t].val)

\* C9: at most one task is inside a lock scope, the lock names it, and
\* every change of the entry map or of the expiry bookkeeping is made by
\* the step of a task that takes the free lock.
MutualExclusion ==
    /\ [](\A t \in Tasks, u \in Tasks :
            /\ (task[t].pc = "locked" /\ task[u].pc = "locked") => t = u
            /\ task[t].pc = "locked" => lock = t)
    /\ [][(cache' # cache \/ ttl_data' # ttl_data) =>
            /\ lock = NoTask
            /\ \E t \in Tasks : /\ lock' = t
                                 /\ task[t].pc # "locked"
                                 /\ task'[t].pc = "locked"]_vars

\* one task is inside the scope of set and has changed the store while
\* the other waits for the lock with the set of its get_or_set
MutualExclusionWitness ==
    \E t \in Tasks, u \in Tasks :
        /\ At(t, "set") /\ lock = t /\ Has(cache, Cur(t).key)
        /\ task[u].pc = "wait" /\ Cur(u).fn = "set"

\* the engine functions a running operation waits to enter
Resume(t) ==
    /\ task[t].pc = "wait"
    /\ (get(t) \/ set(t) \/ delete(t) \/ scan(t))

\* the steps of a running operation that need no lock
Proceed(t) ==
    Release(t) \/ fetch_book(t) \/ fetch_books(t) \/ db_write(t) \/ Return(t)

\* asyncio.Lock wakes its waiters in turn (strong fairness of the entry);
\* a task that can run does run; the suppliers and the record store answer
Fairness ==
    \A t \in Tasks : SF_vars(Resume(t)) /\ WF_vars(Proceed(t))

\* the requests of the scheduling analysis race within one TTL
InitFair ==
    /\ cache = <<>>
    /\ ttl_data = <<>>
    /\ lock = NoTask
    /\ now = 0
    /\ db = [b \in BookIds |-> 0]
    /\ client = "fair"
    /\ task = [t \in Tasks |-> Idle]
    /\ lru = <<>>
    /\ set_expiry = <<>>
    /\ trail = <<>>
    /\ derive = NoDerive

FairSpec == InitFair /\ [][NextApi]_vars /\ Fairness

SupplierRunsUnlocked ==
    \A t \in Tasks :
        (task[t].pc = "await" /\ Cur(t).fn = "fetch_func") =>
            /\ lock # t
            /\ \A u \in Tasks \ {t} :
                  /\ task[u].pc = "locked" => (lock = u /\ ENABLED Release(u))
                  /\ task[u].pc = "idle" =>
                        \A k \in EngineKeys :
                            /\ ENABLED (get(u) /\ EnteredKey(u) = k)
                            /\ ENABLED (set(u) /\ EnteredKey(u) = k)
                            /\ ENABLED (delete(u) /\ EnteredKey(u) = k)
                  /\ (task[u].pc = "wait" /\ Cur(u).fn \in {"get", "set", "delete"}) =>
                        ENABLED (get(u) \/ set(u) \/ delete(u))

\* while one task's supplier is pending, the other task is inside the scope
\* of a set of the same key
SupplierRunsUnlockedWitness ==
    \E t \in Tasks, u \in Tasks :
        /\ task[t].pc = "await" /\ Cur(t).fn = "fetch_func"
        /\ At(u, "set") /\ task[u].op = "set" /\ Cur(u).key = Cur(t).key
        /\ Has(cache, Cur(t).key)

\* the number of entries the entry map holds for key k
Count(c, k) == Cardinality({i \in 1..Len(c) : c[i].key = k})

\* C12: two overlapping get_or_set calls of one missing key can both run
\* their suppliers; whenever the set of a get_or_set has run, and until the
\* call completes, the store holds exactly one entry for the key and it is
\* the value of that set, so after both calls the value of the later set
\* is the one stored.
LastWriteWins ==
    /\ [](\A t \in Tasks :
            (At(t, "set") /\ task[t].op = "get_or_set") =>
                /\ Count(cache, Cur(t).key) = 1
                /\ ValueOf(cache, Cur(t).key) = task[t].val)
    /\ [][\A t \in Tasks :
            (At(t, "set") /\ task[t].op = "get_or_set" /\ task'[t].pc # "locked") =>
                /\ task'[t] = Idle
                /\ cache' = cache]_vars

\* both calls have missed the same key and run their suppliers; the first
\* has written its value and the second waits to write a different one
LastWriteWinsWitness ==
    \E t \in Tasks, u \in Tasks :
        /\ At(u, "set") /\ task[u].op = "get_or_set" /\ task[u].calls = 1
        /\ task[t].pc = "wait" /\ Cur(t).fn = "set" /\ task[t].op = "get_or_set"
        /\ task[t].calls = 1
        /\ Cur(t).key = Cur(u).key
        /\ task[t].val # task[u].val
        /\ ValueOf(cache, Cur(u).key) = task[u].val

\* C13: a set (direct or as the last step of get_or_set) that is given a
\* ttl of zero or less is rejected with an error and stores nothing.
NonPositiveTtlRejected ==
    [][\A t \in Tasks :
         (Entered(t, "set") /\ Head(task'[t].todo).ttl # NoTtl
            /\ Head(task'[t].todo).ttl[1] <= 0) =>
               /\ task'[t].err
               /\ cache' = cache
               /\ ttl_data' = ttl_data]_vars

\* C14: a set that raises leaves the entry map, its order and the expiry
\* bookkeeping as they were before the call.
FailedSetChangesNothing ==
    [][\A t \in Tasks :
         (Entered(t, "set") /\ task'[t].err) =>
               /\ cache' = cache
               /\ ttl_data' = ttl_data]_vars

\* the smaller of two numbers
Min(a, b) == IF a < b THEN a ELSE b

\* C15: as long as the calls made on the empty store were n sets of
\* pairwise distinct keys and nothing else, the store holds min(n, max_size)
\* entries.
DistinctSetsFillToCapacity ==
    trail # Spoiled => Len(cache) = Min(Len(trail), max_size)

\* more sets of distinct keys than the store has room for have been made,
\* and nothing else
DistinctSetsWitness ==
    /\ trail # Spoiled
    /\ Len(trail) > max_size
    /\ Len(cache) = max_size
    /\ task[Caller].pc = "idle"

\* C16: a get that returns a value leaves that entry last in the order, a
\* set leaves its entry last; the other entries that remain keep their
\* relative order and their values, and a get changes no value and no
\* expiry.
TouchMovesToEnd ==
    [][\A t \in Tasks :
         /\ (Entered(t, "get") /\ task'[t].ret # None) =>
               LET k == EnteredKey(t) IN
               /\ Len(cache') = Len(cache)
               /\ cache'[Len(cache')] = [key |-> k, value |-> task'[t].ret]
               /\ task'[t].ret = ValueOf(cache, k)
               /\ Remove(cache', k) = Remove(cache, k)
               /\ ttl_data' = ttl_data
         /\ Entered(t, "set") =>
               LET k == EnteredKey(t) IN
               /\ cache'[Len(cache')] = [key |-> k, value |-> task'[t].val]
               /\ Remove(cache', k) = RemoveAll(cache, {k} \cup task'[t].removed)
               /\ \A e \in KeysOf(cache') \ {k} : ttl_data'[e] = ttl_data[e]]_vars

\* a get has returned the entry that was set before the other stored entry
\* and now stands behind it
TouchMovesToEndWitness ==
    \E t \in Tasks :
        /\ At(t, "get") /\ task[t].ret # None
        /\ Len(cache) = 2
        /\ cache[2].key = Cur(t).key
        /\ now = MaxTime
        /\ ttl_data[cache[2].key] = MaxTime
        /\ ttl_data[cache[1].key] = MaxTime + default_ttl

\* C17: a set records the expiry set-time + ttl (the default when no ttl is
\* given); a get of the key at a later time than that returns absent and
\* removes the entry, and get_stats reports the number of entries that are
\* stored, so the entry is no longer counted.
ExpiredEntryIsGone ==
    [][\A t \in Tasks :
         /\ Entered(t, "set") =>
               LET k == EnteredKey(t)
                   a == Head(task'[t].todo).ttl
               IN  /\ Has(cache', k)
                   /\ set_expiry'[k] = now + (IF a = NoTtl THEN default_ttl ELSE a[1])
         /\ (Entered(t, "get") /\ EnteredKey(t) \in DOMAIN set_expiry
                /\ now > set_expiry[EnteredKey(t)]) =>
               /\ task'[t].ret = None
               /\ ~Has(cache', EnteredKey(t))
               /\ Len(cache') = Len(cache) - 1
         /\ Entered(t, "get_stats") =>
               /\ task'[t].ret = ToString(Cardinality(KeysOf(cache)))
               /\ cache' = cache]_vars

\* a get has found its entry expired and removed it while another entry,
\* the only one that get_stats would count, is still stored
ExpiredEntryIsGoneWitness ==
    \E t \in Tasks :
        /\ At(t, "get") /\ task[t].op = "get"
        /\ task[t].removed = {Cur(t).key} /\ task[t].ret = None
        /\ Len(cache) = 1
        /\ ~Has(cache, Cur(t).key)

\* C18: a get of a key that is not stored returns absent and changes
\* nothing; a get of an entry whose expiry lies before the current time
\* returns absent and removes that entry alone from the entry map and the
\* expiry bookkeeping; at the expiry instant itself the entry is returned.
GetMissAndLazyExpiry ==
    [][\A t \in Tasks :
         Entered(t, "get") =>
            LET k == EnteredKey(t) IN
            /\ ~Has(cache, k) =>
                  /\ task'[t].ret = None
                  /\ cache' = cache /\ ttl_data' = ttl_data
            /\ (Has(cache, k) /\ now > ttl_data[k]) =>
                  /\ task'[t].ret = None
                  /\ cache' = SelectSeq(cache, LAMBDA e : e.key # k)
                  /\ ttl_data' = [x \in (DOMAIN ttl_data) \ {k} |-> ttl_data[x]]
            /\ (Has(cache, k) /\ now = ttl_data[k]) =>
                  /\ task'[t].ret = ValueOf(cache, k)
                  /\ Has(cache', k)]_vars

\* at the last instant of the clock a get has returned an entry exactly at
\* its expiry instant
GetMissAndLazyExpiryWitness ==
    \E t \in Tasks :
        /\ At(t, "get") /\ task[t].op = "get" /\ task[t].ret = "a"
        /\ now = MaxTime
        /\ ttl_data[Cur(t).key] = now
        /\ Len(cache) = 1

\* C19: a set of a key that is stored raises nothing, also when the store
\* is full: the stored keys and their number stay the same, the other
\* entries keep their expiry, and the entry of the key gets the new value
\* and the expiry now + ttl and is the last in the order.
OverwriteAlwaysSucceeds ==
    [][\A t \in Tasks :
         (Entered(t, "set") /\ Has(cache, EnteredKey(t))) =>
            LET k == EnteredKey(t)
                a == Head(task'[t].todo).ttl
            IN  /\ ~task'[t].err
                /\ KeysOf(cache') = KeysOf(cache)
                /\ Len(cache') = Len(cache)
                /\ cache'[Len(cache')] = [key |-> k, value |-> task'[t].val]
                /\ DOMAIN ttl_data' = DOMAIN ttl_data
                /\ ttl_data'[k] = now + (IF a = NoTtl THEN default_ttl ELSE a[1])
                /\ \A e \in KeysOf(cache) \ {k} :
                      /\ ttl_data'[e] = ttl_data[e]
                      /\ ValueOf(cache', e) = ValueOf(cache, e)]_vars

\* a set has overwritten the stored entry of its key in a full store, at a
\* later time than the one that the other entry was set at
OverwriteAlwaysSucceedsWitness ==
    \E t \in Tasks :
        /\ At(t, "set") /\ task[t].op = "set" /\ task[t].had
        /\ Len(cache) = max_size
        /\ cache[Len(cache)] = [key |-> Cur(t).key, value |-> "a"]
        /\ now > 0
        /\ ttl_data[Cur(t).key] > ttl_data[cache[1].key]

\* C20: delete returns true exactly when the key was stored and raises
\* nothing; after it the key is not stored and a get of it returns absent;
\* a delete of a key that is not stored changes neither the entries, their
\* order nor the expiry bookkeeping, and a delete of a stored key removes
\* that entry alone.
DeleteReportsRemoval ==
    /\ [](\A t \in Tasks : At(t, "delete") => Lookup(Cur(t).key) = None)
    /\ [][\A t \in Tasks :
            Entered(t, "delete") =>
               LET k == EnteredKey(t) IN
               /\ task'[t].ret = (IF Has(cache, k) THEN "True" ELSE "False")
               /\ ~task'[t].err
               /\ ~Has(cache', k) /\ k \notin DOMAIN ttl_data'
               /\ cache' = SelectSeq(cache, LAMBDA e : e.key # k)
               /\ ~Has(cache, k) => (cache' = cache /\ ttl_data' = ttl_data)]_vars

\* a delete has found nothing to remove under its key in a full store
\* while the other task is in the middle of a get_or_set
DeleteReportsRemovalWitness ==
    \E t \in Tasks, u \in Tasks :
        /\ At(t, "delete") /\ task[t].op = "delete" /\ task[t].ret = "False"
        /\ ~task[t].had
        /\ Len(cache) = max_size
        /\ task[u].op = "get_or_set" /\ task[u].pc = "wait"

\* C21: for every key, when a get of the key would return absent (its
\* entry was deleted, evicted, purged, has expired or never existed), it
\* still would after every step that is not a set of that key.
NoResurrection ==
    [][\A k \in EngineKeys :
         (Lookup(k) = None
            /\ ~\E t \in Tasks : Entered(t, "set") /\ EnteredKey(t) = k) =>
               Lookup(k)' = None]_vars

\* after the clock has advanced a delete has removed the stored entry of
\* its key while another entry remains, and a get of the key would now
\* return absent
NoResurrectionWitness ==
    \E t \in Tasks :
        /\ At(t, "delete") /\ task[t].ret = "True" /\ task[t].had
        /\ now > 0
        /\ Lookup(Cur(t).key) = None
        /\ cache # <<>>

\* the parameter mapping of the i-th derivation: its name-value pairs
Mapping(i) ==
    LET kw == derive.calls[i].kwargs IN {kw[j] : j \in 1..Len(kw)}

\* the names of the parameters of the i-th derivation
NamesOf(i) == {pair[1] : pair \in Mapping(i)}

\* C22: two derivations with the same prefix and the same parameter names
\* and values give the same key, in whatever order the parameters were
\* written and at whatever times the two were made; with the same prefix
\* and names and a different value for one parameter they give different
\* keys.
KeyIsFunctionOfMapping ==
    (derive.keys # <<>> /\ derive.keys[1] # NoKey /\ derive.keys[2] # NoKey
        /\ derive.calls[1].prefix = derive.calls[2].prefix) =>
          /\ Mapping(1) = Mapping(2) => derive.keys[1] = derive.keys[2]
          /\ (NamesOf(1) = NamesOf(2) /\ Cardinality(Mapping(1) \ Mapping(2)) = 1) =>
                derive.keys[1] # derive.keys[2]

\* both keys are derived, at different times, from the same two parameters
\* written in different orders
KeyIsFunctionOfMappingWitness ==
    /\ derive.keys # <<>> /\ derive.keys[1] # NoKey /\ derive.keys[2] # NoKey
    /\ derive.calls[1].prefix = derive.calls[2].prefix
    /\ Mapping(1) = Mapping(2)
    /\ derive.calls[1].kwargs # derive.calls[2].kwargs
    /\ derive.keys[1] = derive.keys[2]
    /\ now > 0

\* the entry map holds an entry that a by-id helper of record type ns
\* stored for identifier id
ById(c, ns, id) ==
    \E k \in KeysOf(c) : k.ns = ns /\ k.params = << <<"id", id>> >>

\* the record type a helper works on
TypeOf(op) ==
    IF op \in {"cache_book_data", "invalidate_book_cache"} THEN "book" ELSE "student"

\* C23: the write step of cache_book_data(id) / cache_student_data(id)
\* stores the by-id entry of that record type and identifier; the delete
\* step of invalidate_book_cache(id) / invalidate_student_cache(id) removes
\* that entry and no other, and the scan of invalidate_book_cache removes
\* no by-id entry.
InvalidateRemovesOwnEntry ==
    [][\A t \in Tasks :
         LET f == task'[t] IN
         /\ (Entered(t, "set") /\ f.op \in {"cache_book_data", "cache_student_data"}) =>
               /\ ById(cache', TypeOf(f.op), f.id)
               /\ EnteredKey(t).ns = TypeOf(f.op)
               /\ EnteredKey(t).params = << <<"id", f.id>> >>
         /\ (Entered(t, "delete")
                /\ f.op \in {"invalidate_book_cache", "invalidate_student_cache"}) =>
               /\ ~ById(cache', TypeOf(f.op), f.id)
               /\ \A ns \in {"book", "student"}, id \in HelperIds :
                     (ns # TypeOf(f.op) \/ id # f.id) =>
                        (ById(cache', ns, id) <=> ById(cache, ns, id))
               /\ Len(cache') >= Len(cache) - 1
         /\ Entered(t, "scan") => cache' = cache]_vars

\* invalidate_book_cache(1) has deleted the entry that cache_book_data(1)
\* stored, and the entry of the student with the same identifier remains
InvalidateRemovesOwnEntryWitness ==
    \E t \in Tasks :
        /\ At(t, "delete") /\ task[t].op = "invalidate_book_cache"
        /\ task[t].id = 1 /\ task[t].ret = "True"
        /\ ById(cache, "student", 1)
        /\ ~ById(cache, "book", 1)

\* C24: when a book-mutating endpoint has made its last invalidation call,
\* the entry map holds no entry of the search namespace.
NoSearchEntryAfterMutation ==
    \A t \in Tasks :
        (At(t, "delete") /\ Len(task[t].todo) = 1
           /\ task[t].op \in {"create_book", "update_book", "borrow_book"}) =>
              \A k \in KeysOf(cache) : k.ns # "book_search"

\* C25: get_stats reports the number of stored entries as size, the
\* configured capacity as max_size and size / max_size * 100 as
\* usage_percent, and changes neither the entries, their order (so the
\* next victim of an eviction is the same) nor the expiry bookkeeping.
GetStatsIsReadOnly ==
    [][\A t \in Tasks :
         Entered(t, "get_stats") =>
            LET r == task'[t].stats IN
            /\ r.size = Cardinality(KeysOf(cache))
            /\ r.max_size = max_size
            /\ r.usage_percent[2] # 0
            /\ r.usage_percent[1] * max_size = r.size * 100 * r.usage_percent[2]
            /\ cache' = cache
            /\ ttl_data' = ttl_data
            /\ lru' = lru
            /\ ~task'[t].err]_vars

\* get_stats has reported a full store while the other task waits to
\* write the result of its supplier under a key that is not stored
GetStatsIsReadOnlyWitness ==
    \E t \in Tasks, u \in Tasks :
        /\ At(t, "get_stats") /\ task[t].stats.size = max_size
        /\ task[t].stats.usage_percent = <<max_size * 100, max_size>>
        /\ task[u].pc = "wait" /\ Cur(u).fn = "set" /\ ~Has(cache, Cur(u).key)

\* C26: cleanup_expired removes exactly the entries whose expiry is earlier
\* than the current time, from the entry map and from the expiry
\* bookkeeping, and returns their number; the other entries keep value,
\* expiry and relative order.
SweepRemovesExactlyExpired ==
    [][\A t \in Tasks :
         Entered(t, "cleanup_expired") =>
            LET gone == {k \in KeysOf(cache) : ttl_data[k] < now} IN
            /\ cache' = SelectSeq(cache, LAMBDA e : e.key \notin gone)
            /\ ttl_data' = [k \in (DOMAIN ttl_data) \ gone |-> ttl_data[k]]
            /\ task'[t].ret = ToString(Cardinality(gone))
            /\ Len(cache') = Len(cache) - Cardinality(gone)]_vars

\* a sweep has removed one entry and kept another that is exactly at its
\* expiry instant
SweepRemovesExactlyExpiredWitness ==
    \E t \in Tasks :
        /\ At(t, "cleanup_expired") /\ task[t].ret = "1"
        /\ Cardinality(task[t].removed) = 1
        /\ Len(cache) = 1
        /\ ttl_data[cache[1].key] = now

\* C27: a set stores the value given with the expiry now + ttl, or
\* now + default_ttl when no ttl is given; while the key is neither set
\* again nor removed its value and expiry stay, and a get at a time not
\* later than the expiry the set recorded returns the stored value.
SetThenGetReturnsValue ==
    [][\A t \in Tasks :
         /\ Entered(t, "set") =>
               LET k == EnteredKey(t)
                   a == Head(task'[t].todo).ttl
               IN  /\ Count(cache', k) = 1
                   /\ ValueOf(cache', k) = task'[t].val
                   /\ ttl_data'[k] = now + (IF a = NoTtl THEN default_ttl ELSE a[1])
                   /\ set_expiry'[k] = ttl_data'[k]
         /\ \A k \in KeysOf(cache) \cap KeysOf(cache') :
               (\A u \in Tasks : ~(Entered(u, "set") /\ EnteredKey(u) = k)) =>
                  /\ ValueOf(cache', k) = ValueOf(cache, k)
                  /\ ttl_data'[k] = ttl_data[k]
                  /\ set_expiry'[k] = set_expiry[k]
         /\ (Entered(t, "get") /\ Has(cache, EnteredKey(t))
                /\ now <= set_expiry[EnteredKey(t)]) =>
               /\ task'[t].ret = ValueOf(cache, EnteredKey(t))
               /\ Has(cache', EnteredKey(t))]_vars

\* a get has returned the value "a" that a set without a ttl stored
\* default_ttl ticks earlier, at the last instant of its lifetime
SetThenGetReturnsValueWitness ==
    \E t \in Tasks :
        /\ At(t, "get") /\ task[t].op = "get" /\ task[t].ret = "a"
        /\ now = default_ttl
        /\ set_expiry[Cur(t).key] = default_ttl
        /\ Len(cache) = max_size

\* C28: whenever no task holds the lock, the keys of the entry map are the
\* keys of the expiry bookkeeping.
ExpiryBookkeepingMatches ==
    lock = NoTask => KeysOf(cache) = DOMAIN ttl_data

\* C29: entries past their expiry that no call has touched are counted:
\* get_stats reports them in size, and a set of a key that is not stored
\* into a store of max_size entries evicts the first entry of the order,
\* live or not, and keeps the others, expired or not.
ExpiredEntriesOccupyCapacity ==
    [][\A t \in Tasks :
         /\ Entered(t, "get_stats") =>
               task'[t].stats.size =
                  Cardinality({k \in KeysOf(cache) : now <= ttl_data[k]})
                  + Cardinality({k \in KeysOf(cache) : now > ttl_data[k]})
         /\ (Entered(t, "set") /\ ~Has(cache, EnteredKey(t))
                /\ Len(cache) = max_size) =>
               /\ ~Has(cache', cache[1].key)
               /\ \A i \in 2..Len(cache) : Has(cache', cache[i].key)
               /\ Len(cache') = max_size]_vars

\* a set has evicted a live entry, the first of the order, while an
\* entry that is past its expiry stays stored
ExpiredEntriesOccupyCapacityWitness ==
    \E t \in Tasks :
        /\ At(t, "set") /\ ~task[t].had
        /\ \E v \in DOMAIN task[t].dropped : now <= task[t].dropped[v]
        /\ \E k \in KeysOf(cache) : now > ttl_data[k]
        /\ Len(cache) = max_size

\* C30: between the delete scope and the scan scope of
\* invalidate_book_cache the task does not hold the lock, a set that
\* another task makes there stores its entry, and the scan removes no
\* by-id entry, so that entry is stored when invalidate_book_cache returns.
InvalidateIsTwoScopes ==
    /\ [](\A t \in Tasks :
            (task[t].pc = "wait" /\ Cur(t).fn = "scan") => lock # t)
    /\ [][\A t \in Tasks, u \in Tasks :
            /\ (task[t].pc = "wait" /\ Cur(t).fn = "scan" /\ Entered(u, "set")) =>
                  /\ u # t
                  /\ task'[t] = task[t]
                  /\ ValueOf(cache', EnteredKey(u)) = task'[u].val
            /\ Entered(t, "scan") =>
                  /\ \A k \in KeysOf(cache) :
                        k.kind = "md5" =>
                           /\ Has(cache', k)
                           /\ ValueOf(cache', k) = ValueOf(cache, k)
                  /\ Len(task'[t].todo) = 1]_vars

\* between the two scopes of an invalidate_book_cache the set step of the
\* other task's get_or_set on the same by-id key has stored its value
InvalidateIsTwoScopesWitness ==
    \E t \in Tasks, u \in Tasks :
        /\ task[t].op = "invalidate_book_cache"
        /\ task[t].pc = "wait" /\ Cur(t).fn = "scan"
        /\ At(u, "set") /\ task[u].op = "get_or_set" /\ task[u].calls = 1
        /\ Cur(u).key = BookKey(1)
        /\ Lookup(BookKey(1)) = "a"
====
